---- MODULE Spec2Model ----
(***************************************************************************)
(* RemBG: luminance matte (remove_dark_bg / remove_light_bg), the AI       *)
(* segmentation path with its session cache (app.py, the Flask server),    *)
(* and the desktop batch worker (rembg_app.py, RemBGApp).                  *)
(*                                                                         *)
(* The specifications of this module:                                      *)
(*   MatteSpec     calls of the two pure matte functions on one input      *)
(*   PipelineSpec  one image through one entry point, twice                *)
(*   ServerSpec    concurrent /process requests of app.py                  *)
(*   BatchSpec     the desktop application: UI callbacks, worker threads   *)
(*   BatchLiveSpec BatchSpec with worker threads that are not starved      *)
(*   ProgramSpec   either program                                          *)
(*                                                                         *)
(* Arithmetic.  numpy computes the matte in float32.  The model computes   *)
(* the same expressions in exact rational arithmetic: a luminance is an    *)
(* integer number of 1/LumScale units, an alpha value is a numerator over  *)
(* AlphaDen(soft), a despilled channel a numerator over DespillDen.  The   *)
(* float32 rounding of each operation (a relative error below 1e-7) is not *)
(* represented; the final astype(np.uint8) truncation is.                  *)
(*                                                                         *)
(* Images.  Every matte operation is elementwise over the pixel array, so  *)
(* an image is its size, its mode and one pixel <<r, g, b, a>> standing    *)
(* for each of its pixels.                                                 *)
(***************************************************************************)
EXTENDS Integers, Sequences, FiniteSets, TLC

VARIABLES
    \* ---- MatteSpec: one direct call of each matte function ----
    m_img,        \* the input image
    m_threshold,  \* threshold argument
    m_softness,   \* softness argument
    m_despill,    \* despill argument
    m_dark,       \* result of remove_dark_bg, or NoImage before the call
    m_light,      \* result of remove_light_bg, or NoImage before the call
    m_lightInv,   \* result of remove_light_bg on the inverted image, or NoImage
    \* ---- PipelineSpec: one image through one entry point ----
    p_entry,      \* "server" (app.py process) or "desktop" (rembg_app.py _worker)
    p_mode,       \* mode parameter
    p_img,        \* the opened input image
    p_form_threshold,  \* threshold as submitted (form field) or held by the slider
    p_form_softness,   \* softness as submitted or held by the slider
    p_threshold,  \* the local threshold: as read, then as clamped
    p_softness,   \* the local softness: as read, then as clamped
    p_despill,
    p_raw,        \* what the external model's remove() returns for this image
    p_out,        \* the image that is encoded (server) or saved (desktop), or NoImage
    p_again,      \* the same for a second run with the same input and parameters
    p_status,     \* "new", "ok" (image returned), "invalid" (no image), "again"
    \* ---- ServerSpec: concurrent /process requests of app.py ----
    _session_cache,     \* model name -> session id, 0 when the key is absent
    new_session_calls,  \* model name -> number of calls of rembg.new_session
    sessions_built,     \* model name -> number of sessions new_session returned
    req,                \* request thread -> its position and locals
    \* ---- BatchSpec: the desktop application RemBGApp ----
    _files,        \* the queue: a list of paths without duplicates
    _mode_var,     \* tk.StringVar behind the mode radio buttons
    _running,
    _stop_evt,     \* threading.Event: TRUE when set
    _done_count,
    _error_count,
    _skip_count,
    workers,       \* the worker threads started so far, in start order
    existing       \* the paths whose output <stem>_rmbg.png exists on disk

matteVars == <<m_img, m_threshold, m_softness, m_despill, m_dark, m_light, m_lightInv>>

pipeVars == <<p_entry, p_mode, p_img, p_form_threshold, p_form_softness, p_threshold,
              p_softness, p_despill, p_raw, p_out, p_again, p_status>>
serverVars == <<_session_cache, new_session_calls, sessions_built, req>>

batchVars == <<_files, _mode_var, _running, _stop_evt, _done_count, _error_count, _skip_count,
               workers, existing>>

vars == <<matteVars, pipeVars, serverVars, batchVars>>

\* ------------------------------------------------------------------------
\* Values
\* ------------------------------------------------------------------------

NoImage == [size |-> <<0, 0>>, mode |-> "none", px |-> <<0, 0, 0, 0>>]

\* Channel values the input pixels are drawn from.
ChannelSamples == {0, 34, 35, 36, 60, 128, 255}

\* threshold and softness arguments of a direct call: inside the ranges
\* process() clamps to, and softness also 0 and negative.
ThresholdSamples == {0, 35, 128, 255}
SoftnessSamples == {-5, 0, 1, 25, 200}

\* Image sizes (width, height).
Sizes == {<<10, 10>>, <<4, 3>>}

\* Pixels whose luminance is threshold + softness / 2 for a sampled threshold
\* and softness: 47.5 (35, 25), 12.5 (0, 25), 140.5 (128, 25), 100 (0, 200),
\* 135 (35, 200), 35.5 (35, 1), 128.5 (128, 1).
MidRampPixels ==
    {<<15, 56, 59, 255>>, <<45, 4, 1, 255>>, <<57, 179, 5, 255>>, <<100, 100, 100, 255>>,
     <<135, 135, 135, 255>>, <<3, 44, 47, 255>>, <<14, 164, 114, 255>>}

Pixels ==
    {<<r, g, b, 255>> : r \in ChannelSamples, g \in ChannelSamples, b \in ChannelSamples}
    \cup MidRampPixels

InputImages == [size : Sizes, mode : {"RGBA"}, px : Pixels]

Max(a, b) == IF a >= b THEN a ELSE b
Min(a, b) == IF a <= b THEN a ELSE b

\* np.clip(x, lo, hi)
Clip(x, lo, hi) == Max(lo, Min(x, hi))

\* ------------------------------------------------------------------------
\* The luminance matte (app.py; rembg_app.py holds the same text)
\* ------------------------------------------------------------------------

\* Luminance is counted in units of 1/LumScale.
LumScale == 10000
\* ITU-R BT.709 weights 0.2126, 0.7152, 0.0722 in units of 1/LumScale.
LumR == 2126
LumG == 7152
LumB == 722

\* lum = 0.2126 * r + 0.7152 * g + 0.0722 * b
Lum(px) == LumR * px[1] + LumG * px[2] + LumB * px[3]

\* Mutant of Soft: the divisor is the softness as passed.
Soft_unfloored(softness) == softness

\* soft = max(softness, 1)
Soft(softness) == Max(softness, 1)

\* Denominator of an alpha value computed with divisor soft.
AlphaDen(soft) == LumScale * soft

AlphaMax == 255
\* upper end of the fringe band: mask = (alpha > 0) & (alpha < 200)
FringeTop == 200
\* factor = 1.3, as DespillNum / DespillDen
DespillNum == 13
DespillDen == 10

\* Mutant of dark_alpha: the ramp without its "* 255.0" scaling.
dark_alpha_unscaled(lum, threshold, soft) ==
    Clip(lum - threshold * LumScale, 0, AlphaMax * AlphaDen(soft))

\* Mutant of dark_alpha: the ramp with the sign of light mode's.
dark_alpha_inverted(lum, threshold, soft) ==
    Clip((threshold * LumScale - lum) * AlphaMax + AlphaMax * AlphaDen(soft),
         0, AlphaMax * AlphaDen(soft))

\* Mutant of dark_alpha: the ramp starts at luminance 0, not at threshold.
dark_alpha_ignoring_threshold(lum, threshold, soft) ==
    Clip(lum * AlphaMax, 0, AlphaMax * AlphaDen(soft))

\* alpha = np.clip((lum - threshold) / soft * 255.0, 0.0, 255.0), as a
\* numerator over AlphaDen(soft)
dark_alpha(lum, threshold, soft) ==
    Clip((lum - threshold * LumScale) * AlphaMax, 0, AlphaMax * AlphaDen(soft))

\* Mutant of light_alpha: the ramp without its "+ 255.0" offset, so that it
\* lies below threshold instead of above it.
light_alpha_no_offset(lum, threshold, soft) ==
    Clip((threshold * LumScale - lum) * AlphaMax, 0, AlphaMax * AlphaDen(soft))

\* alpha = np.clip((threshold - lum) / soft * 255.0 + 255.0, 0.0, 255.0), as
\* a numerator over AlphaDen(soft)
light_alpha(lum, threshold, soft) ==
    Clip((threshold * LumScale - lum) * AlphaMax + AlphaMax * AlphaDen(soft),
         0, AlphaMax * AlphaDen(soft))

\* mask = (alpha > 0) & (alpha < 200), on the float alpha
fringe_mask(alpha, soft) == alpha > 0 /\ alpha < FringeTop * AlphaDen(soft)

\* astype(np.uint8) of a value num/den in [0, 255]: truncation
astype_uint8(num, den) == num \div den

\* Mutant of despill_channel: the deviation is subtracted, not added.
despill_channel_reversed(ch, m) ==
    astype_uint8(Clip(DespillDen * m - DespillNum * (ch - m), 0, AlphaMax * DespillDen),
                 DespillDen)

\* np.clip(m + (ch - m) * factor, 0, 255), then astype(np.uint8)
despill_channel(ch, m) ==
    astype_uint8(Clip(DespillDen * m + DespillNum * (ch - m), 0, AlphaMax * DespillDen),
                 DespillDen)

\* Mutant of remove_dark_bg: the result depends on module state, the matte
\* is empty once a session sits in the cache.
remove_dark_bg_reading_cache(img, threshold, softness, despill) ==
    LET soft == Soft(softness)
        warm == \E m \in DOMAIN _session_cache : _session_cache[m] # 0
    IN  [size |-> img.size, mode |-> "RGBA",
         px |-> <<img.px[1], img.px[2], img.px[3],
                  IF warm THEN 0
                  ELSE astype_uint8(dark_alpha(Lum(img.px), threshold, soft), AlphaDen(soft))>>]

remove_dark_bg(img, threshold, softness, despill) ==
    LET r == img.px[1]
        g == img.px[2]
        b == img.px[3]
        soft == Soft(softness)
        alpha == dark_alpha(Lum(img.px), threshold, soft)
        mask == despill /\ fringe_mask(alpha, soft)
        mx == Max(r, Max(g, b))
    IN  [size |-> img.size, mode |-> "RGBA",
         px |-> <<IF mask THEN despill_channel(r, mx) ELSE r,
                  IF mask THEN despill_channel(g, mx) ELSE g,
                  IF mask THEN despill_channel(b, mx) ELSE b,
                  astype_uint8(alpha, AlphaDen(soft))>>]

\* Mutant of remove_light_bg: the despill flag is not looked at.
remove_light_bg_always_despill(img, threshold, softness, despill) ==
    LET r == img.px[1]
        g == img.px[2]
        b == img.px[3]
        soft == Soft(softness)
        alpha == light_alpha(Lum(img.px), threshold, soft)
        mask == fringe_mask(alpha, soft)
        mn == Min(r, Min(g, b))
    IN  [size |-> img.size, mode |-> "RGBA",
         px |-> <<IF mask THEN despill_channel(r, mn) ELSE r,
                  IF mask THEN despill_channel(g, mn) ELSE g,
                  IF mask THEN despill_channel(b, mn) ELSE b,
                  astype_uint8(alpha, AlphaDen(soft))>>]

remove_light_bg(img, threshold, softness, despill) ==
    LET r == img.px[1]
        g == img.px[2]
        b == img.px[3]
        soft == Soft(softness)
        alpha == light_alpha(Lum(img.px), threshold, soft)
        mask == despill /\ fringe_mask(alpha, soft)
        mn == Min(r, Min(g, b))
    IN  [size |-> img.size, mode |-> "RGBA",
         px |-> <<IF mask THEN despill_channel(r, mn) ELSE r,
                  IF mask THEN despill_channel(g, mn) ELSE g,
                  IF mask THEN despill_channel(b, mn) ELSE b,
                  astype_uint8(alpha, AlphaDen(soft))>>]

\* ------------------------------------------------------------------------
\* MatteSpec: the two matte functions called on one input
\* ------------------------------------------------------------------------

\* The variables of the specifications that are not running keep these values.
MatteIdle ==
    /\ m_img = NoImage /\ m_threshold = 0 /\ m_softness = 1 /\ m_despill = FALSE
    /\ m_dark = NoImage /\ m_light = NoImage /\ m_lightInv = NoImage

PipeIdle ==
    /\ p_entry = "none" /\ p_mode = "none" /\ p_img = NoImage
    /\ p_form_threshold = 0 /\ p_form_softness = 1
    /\ p_threshold = 0 /\ p_softness = 1 /\ p_despill = FALSE
    /\ p_raw = NoImage /\ p_out = NoImage /\ p_again = NoImage /\ p_status = "none"

ServerIdle ==
    /\ _session_cache = <<>> /\ new_session_calls = <<>>
    /\ sessions_built = <<>> /\ req = <<>>

BatchIdle ==
    /\ _files = <<>> /\ _mode_var = "none"
    /\ _running = FALSE /\ _stop_evt = FALSE
    /\ _done_count = 0 /\ _error_count = 0 /\ _skip_count = 0
    /\ workers = <<>> /\ existing = {}

MatteInit ==
    /\ PipeIdle /\ ServerIdle /\ BatchIdle
    /\ m_img \in InputImages
    /\ m_threshold \in ThresholdSamples
    /\ m_softness \in SoftnessSamples
    /\ m_despill \in BOOLEAN
    /\ m_dark = NoImage
    /\ m_light = NoImage
    /\ m_lightInv = NoImage

CallRemoveDark ==
    /\ m_dark = NoImage
    /\ m_dark' = remove_dark_bg(m_img, m_threshold, m_softness, m_despill)
    /\ UNCHANGED <<m_img, m_threshold, m_softness, m_despill, m_light, m_lightInv, pipeVars, serverVars, batchVars>>

CallRemoveLight ==
    /\ m_light = NoImage
    /\ m_light' = remove_light_bg(m_img, m_threshold, m_softness, m_despill)
    /\ UNCHANGED <<m_img, m_threshold, m_softness, m_despill, m_dark, m_lightInv, pipeVars, serverVars, batchVars>>

\* The image whose every channel c is 255 - c; its luminance is 255 - L, the
\* three weights adding up to 1.
Invert(img) ==
    [img EXCEPT !.px = <<AlphaMax - img.px[1], AlphaMax - img.px[2],
                         AlphaMax - img.px[3], img.px[4]>>]

CallRemoveLightInverted ==
    /\ m_lightInv = NoImage
    /\ m_lightInv' = remove_light_bg(Invert(m_img), m_threshold, m_softness, m_despill)
    /\ UNCHANGED <<m_img, m_threshold, m_softness, m_despill, m_dark, m_light, pipeVars, serverVars, batchVars>>

MatteNext == CallRemoveDark \/ CallRemoveLight \/ CallRemoveLightInverted

MatteSpec == MatteInit /\ [][MatteNext]_vars

\* ------------------------------------------------------------------------
\* The AI path and the size guarantee (app.py remove_ai_bg, process;
\* rembg_app.py remove_ai_bg, _worker)
\* ------------------------------------------------------------------------

\* Mutant of resize: the image is returned as it is.
resize_noop(img, size) == img

\* Image.resize(size, Image.LANCZOS)
resize(img, size) == [img EXCEPT !.size = size]

\* Image.convert("RGBA") of an image without alpha channel: opaque
convert_rgba(img) ==
    [img EXCEPT !.mode = "RGBA", !.px = <<img.px[1], img.px[2], img.px[3], AlphaMax>>]

\* Sizes the external model may return besides the input's own.
ModelOutSizes == {<<8, 8>>}

\* What rembg.remove() may return for img: any size, with or without alpha.
RawOutputs(img) ==
    {[size |-> sz, mode |-> "RGBA", px |-> <<img.px[1], img.px[2], img.px[3], a>>] :
        sz \in ModelOutSizes \cup {img.size}, a \in {0, AlphaMax}}
    \cup
    {[size |-> sz, mode |-> "RGB", px |-> <<img.px[1], img.px[2], img.px[3], 0>>] :
        sz \in ModelOutSizes \cup {img.size}}

\* remove_ai_bg after remove() returned raw: normalise the mode and the size
remove_ai_bg(img, raw) ==
    LET converted == IF raw.mode # "RGBA" THEN convert_rgba(raw) ELSE raw
    IN  IF converted.size # img.size THEN resize(converted, img.size) ELSE converted

\* "Ensure original resolution": if result.size != orig: result.resize(orig)
ensure_original_resolution(result, orig_size) ==
    IF result.size # orig_size THEN resize(result, orig_size) ELSE result

\* Modes of the server's form; "sepia" stands for any unsupported value.
ServerModes == {"dark", "light", "ai", "sepia"}
\* Values of the desktop's mode radio buttons.
DesktopModes == {"dark", "light", "ai"}

\* process(): the image that is encoded, NoImage when the mode is rejected
process_result(mode, img, threshold, softness, despill, raw) ==
    CASE mode = "dark"  ->
            ensure_original_resolution(remove_dark_bg(img, threshold, softness, despill), img.size)
      [] mode = "light" ->
            ensure_original_resolution(remove_light_bg(img, threshold, softness, despill), img.size)
      [] mode = "ai"    ->
            ensure_original_resolution(remove_ai_bg(img, raw), img.size)
      [] OTHER -> NoImage

\* rembg_app.py's own copy of remove_dark_bg (lines 51-85)
rembg_app_remove_dark_bg(img, threshold, softness, despill) ==
    LET r == img.px[1]
        g == img.px[2]
        b == img.px[3]
        lum == LumR * r + LumG * g + LumB * b
        soft == IF softness >= 1 THEN softness ELSE 1
        den == LumScale * soft
        alpha == Clip((lum - threshold * LumScale) * 255, 0, 255 * den)
        mask == despill /\ alpha > 0 /\ alpha < 200 * den
        mx == Max(r, Max(g, b))
        boosted(ch) == Clip(10 * mx + 13 * (ch - mx), 0, 2550) \div 10
    IN  [size |-> img.size, mode |-> "RGBA",
         px |-> <<IF mask THEN boosted(r) ELSE r,
                  IF mask THEN boosted(g) ELSE g,
                  IF mask THEN boosted(b) ELSE b,
                  alpha \div den>>]

\* Mutant of rembg_app_remove_light_bg: the despill block as pasted from
\* the dark copy, around the largest channel.
rembg_app_remove_light_bg_pasted(img, threshold, softness, despill) ==
    LET r == img.px[1]
        g == img.px[2]
        b == img.px[3]
        lum == LumR * r + LumG * g + LumB * b
        soft == IF softness >= 1 THEN softness ELSE 1
        den == LumScale * soft
        alpha == Clip((threshold * LumScale - lum) * 255 + 255 * den, 0, 255 * den)
        mask == despill /\ alpha > 0 /\ alpha < 200 * den
        mx == Max(r, Max(g, b))
        boosted(ch) == Clip(10 * mx + 13 * (ch - mx), 0, 2550) \div 10
    IN  [size |-> img.size, mode |-> "RGBA",
         px |-> <<IF mask THEN boosted(r) ELSE r,
                  IF mask THEN boosted(g) ELSE g,
                  IF mask THEN boosted(b) ELSE b,
                  alpha \div den>>]

\* rembg_app.py's own copy of remove_light_bg (lines 88-118)
rembg_app_remove_light_bg(img, threshold, softness, despill) ==
    LET r == img.px[1]
        g == img.px[2]
        b == img.px[3]
        lum == LumR * r + LumG * g + LumB * b
        soft == IF softness >= 1 THEN softness ELSE 1
        den == LumScale * soft
        alpha == Clip((threshold * LumScale - lum) * 255 + 255 * den, 0, 255 * den)
        mask == despill /\ alpha > 0 /\ alpha < 200 * den
        mn == Min(r, Min(g, b))
        boosted(ch) == Clip(10 * mn + 13 * (ch - mn), 0, 2550) \div 10
    IN  [size |-> img.size, mode |-> "RGBA",
         px |-> <<IF mask THEN boosted(r) ELSE r,
                  IF mask THEN boosted(g) ELSE g,
                  IF mask THEN boosted(b) ELSE b,
                  alpha \div den>>]

\* _worker(), one file: the image that is saved
worker_result(mode, img, threshold, softness, despill, raw) ==
    CASE mode = "dark"  ->
            ensure_original_resolution(rembg_app_remove_dark_bg(img, threshold, softness, despill),
                                       img.size)
      [] mode = "light" ->
            ensure_original_resolution(rembg_app_remove_light_bg(img, threshold, softness, despill),
                                       img.size)
      [] OTHER ->
            ensure_original_resolution(remove_ai_bg(img, raw), img.size)

\* ------------------------------------------------------------------------
\* PipelineSpec: one image through one entry point, and through it again
\* ------------------------------------------------------------------------

\* Model identifiers of the form.
ModelNames == {"silueta", "u2net"}

\* Mutant of clamp_softness: the value is used as submitted.
clamp_softness_missing(softness) == softness

\* threshold / softness as clamped by process()
clamp_threshold(threshold) == Max(0, Min(threshold, 255))
clamp_softness(softness) == Max(1, Min(softness, 200))

\* Integers a caller of /process submits as threshold and as softness.
SubmittedThresholds == {-20, 35, 255, 300}
SubmittedSoftness == {-3, 0, 25, 200, 500}

\* Values the desktop's sliders hold: threshold 0..200, softness 1..120.
SliderThresholds == {0, 35, 200}
SliderSoftness == {1, 25, 120}

PipePixels ==
    {<<0, 0, 0, 255>>, <<255, 255, 255, 255>>, <<34, 36, 34, 255>>, <<60, 128, 35, 255>>}
PipeImages == [size : Sizes, mode : {"RGBA"}, px : PipePixels]

PipeInit ==
    /\ MatteIdle /\ BatchIdle
    /\ new_session_calls = <<>> /\ sessions_built = <<>> /\ req = <<>>
    /\ _session_cache = [m \in ModelNames |-> 0]
    /\ p_entry \in {"server", "desktop"}
    /\ p_mode \in (IF p_entry = "server" THEN ServerModes ELSE DesktopModes)
    /\ p_img \in PipeImages
    /\ p_form_threshold \in (IF p_entry = "server" THEN SubmittedThresholds
                                                   ELSE SliderThresholds)
    /\ p_form_softness \in (IF p_entry = "server" THEN SubmittedSoftness
                                                  ELSE SliderSoftness)
    /\ p_threshold = p_form_threshold
    /\ p_softness = p_form_softness
    /\ p_despill \in BOOLEAN
    /\ p_raw \in (IF p_mode = "ai" THEN RawOutputs(p_img) ELSE {NoImage})
    /\ p_out = NoImage
    /\ p_again = NoImage
    /\ p_status = "new"

UnchangedRequest ==
    UNCHANGED <<p_entry, p_mode, p_img, p_form_threshold, p_form_softness, p_despill, p_raw>>

\* app.py process(), lines 148-193: the parameters are clamped, the image
\* is processed and the result is encoded
ServerPipeline ==
    /\ p_entry = "server" /\ p_status = "new"
    /\ p_threshold' = clamp_threshold(p_threshold)
    /\ p_softness' = clamp_softness(p_softness)
    /\ p_out' = process_result(p_mode, p_img, p_threshold', p_softness', p_despill, p_raw)
    /\ p_status' = IF p_mode \in {"dark", "light", "ai"} THEN "ok" ELSE "invalid"
    /\ UNCHANGED p_again
    /\ UnchangedRequest
    /\ UNCHANGED <<matteVars, serverVars, batchVars>>

\* rembg_app.py _worker(), one file from Image.open to result.save, with
\* the parameters _start read from the widgets
DesktopPipeline ==
    /\ p_entry = "desktop" /\ p_status = "new"
    /\ p_out' = worker_result(p_mode, p_img, p_threshold, p_softness, p_despill, p_raw)
    /\ p_status' = "ok"
    /\ UNCHANGED <<p_threshold, p_softness, p_again>>
    /\ UnchangedRequest
    /\ UNCHANGED <<matteVars, serverVars, batchVars>>

\* get_session, line 46, in a request of another client: a session is
\* stored in the cache between the two runs.
OtherRequestLoadsModel ==
    /\ p_entry = "server" /\ p_status = "ok"
    /\ \E m \in ModelNames :
         /\ _session_cache[m] = 0
         /\ _session_cache' = [_session_cache EXCEPT ![m] = 1]
    /\ UNCHANGED <<new_session_calls, sessions_built, req>>
    /\ UNCHANGED <<pipeVars, matteVars, batchVars>>

\* The same image with the same parameters through the same entry point a
\* second time; the external model returns what it returned before.
RunAgain ==
    /\ p_status = "ok"
    /\ p_again' = IF p_entry = "server"
                  THEN process_result(p_mode, p_img, clamp_threshold(p_form_threshold),
                                      clamp_softness(p_form_softness), p_despill, p_raw)
                  ELSE worker_result(p_mode, p_img, p_form_threshold, p_form_softness,
                                     p_despill, p_raw)
    /\ p_status' = "again"
    /\ UNCHANGED <<p_threshold, p_softness, p_out>>
    /\ UnchangedRequest
    /\ UNCHANGED <<matteVars, serverVars, batchVars>>

PipeNext == ServerPipeline \/ DesktopPipeline \/ OtherRequestLoadsModel \/ RunAgain

PipelineSpec == PipeInit /\ [][PipeNext]_vars

\* C6: the image that is encoded or saved has the width and height of the
\* input image, for every mode and in both entry points, also when the
\* external model returned another size.
C6_SameSize ==
    p_status = "ok" => p_out.size = p_img.size

\* C6 witness: AI mode, the model returned another size, and the result has
\* the input's size again.
C6_Witness ==
    /\ p_status = "ok" /\ p_mode = "ai"
    /\ p_raw.size # p_img.size
    /\ p_out.size = p_img.size

\* C11: an integer threshold or softness outside its range is clamped and
\* never the reason of a refusal: a request is refused only for its mode,
\* the values the matte is computed with lie in [0,255] and [1,200], and the
\* image returned is the matte for these values.
C11_ClampedNeverRejected ==
    /\ p_status = "invalid" => p_mode \notin {"dark", "light", "ai"}
    /\ p_status \in {"ok", "again"} =>
          /\ p_threshold \in 0..255
          /\ p_softness \in 1..200
          /\ p_mode = "dark" =>
                p_out = remove_dark_bg(p_img, p_threshold, p_softness, p_despill)
          /\ p_mode = "light" =>
                p_out = remove_light_bg(p_img, p_threshold, p_softness, p_despill)

\* C11 witness: the server was sent threshold 300 and softness 0 in dark
\* mode and returned the matte computed with 255 and 1.
C11_Witness ==
    /\ p_entry = "server" /\ p_mode = "dark" /\ p_status = "ok"
    /\ p_form_threshold = 300 /\ p_form_softness = 0
    /\ p_threshold = 255 /\ p_softness = 1
    /\ p_out = remove_dark_bg(p_img, 255, 1, p_despill)

\* C25: the two copies of the matte agree: whichever entry point computed
\* the image of a dark or light run, app.py's function and rembg_app.py's
\* function both return that image for the run's input and parameters.
C25_CopiesAgree ==
    /\ (p_status \in {"ok", "again"} /\ p_mode = "dark") =>
          /\ p_out = remove_dark_bg(p_img, p_threshold, p_softness, p_despill)
          /\ p_out = rembg_app_remove_dark_bg(p_img, p_threshold, p_softness, p_despill)
    /\ (p_status \in {"ok", "again"} /\ p_mode = "light") =>
          /\ p_out = remove_light_bg(p_img, p_threshold, p_softness, p_despill)
          /\ p_out = rembg_app_remove_light_bg(p_img, p_threshold, p_softness, p_despill)

\* C25 witness: the desktop computed a light matte with despill acting on
\* a coloured fringe pixel, and app.py's function gives the same image.
C25_Witness ==
    /\ p_entry = "desktop" /\ p_mode = "light" /\ p_status = "ok" /\ p_despill
    /\ p_out.px[4] \in 1..199
    /\ <<p_out.px[1], p_out.px[2], p_out.px[3]>> # <<p_img.px[1], p_img.px[2], p_img.px[3]>>
    /\ p_out = remove_light_bg(p_img, p_threshold, p_softness, p_despill)

NumRequests == 2
Requests == 1..NumRequests

ServerImages == [size : Sizes, mode : {"RGBA"}, px : {<<34, 36, 34, 255>>}]

\* Form values of threshold and softness (the defaults).
FormThresholds == {35}
FormSoftness == {25}

IdleRequest ==
    [pc |-> "idle", mode |-> "none", model |-> "none", img |-> NoImage,
     tmp |-> 0, session |-> 0, out |-> NoImage, status |-> 0, error |-> "none",
     raised |-> "none", ns_calls |-> 0, rm_calls |-> 0]

RECURSIVE SumOver(_, _)
SumOver(f, S) ==
    IF S = {} THEN 0
    ELSE LET x == CHOOSE y \in S : TRUE IN f[x] + SumOver(f, S \ {x})

\* Identity of the next session object new_session returns.
FreshSession == SumOver(sessions_built, ModelNames) + 1

ServerInit ==
    /\ MatteIdle /\ PipeIdle /\ BatchIdle
    /\ _session_cache = [m \in ModelNames |-> 0]
    /\ new_session_calls = [m \in ModelNames |-> 0]
    /\ sessions_built = [m \in ModelNames |-> 0]
    /\ req = [i \in Requests |-> IdleRequest]

\* The "error" texts of the JSON bodies process() answers with.
InvalidModeError == "Gecersiz mod"
ProcessingError == "Islem basarisiz"
\* Status and error text of the answers to a bad upload (lines 129-162).
UploadErrors ==
    {<<400, "Dosya bulunamadi">>, <<415, "Desteklenmeyen format">>,
     <<413, "Dosya cok buyuk">>, <<400, "Resim acilamadi">>}

\* Request record r, answered: the status, the error text of the JSON body
\* ("none" for an image) and, for 200, the encoded image.
Answered(r, status, error, out) ==
    [r EXCEPT !.pc = "done", !.status = status, !.error = error, !.out = out]

\* The response of request i.
Respond(i, status, error, out) ==
    req' = [req EXCEPT ![i] = Answered(req[i], status, error, out)]

\* process(), lines 128-164: the upload is validated, the parameters are
\* read and the image is opened; a bad upload or an undecodable image is
\* answered at once.
Receive(i) ==
    /\ req[i].pc = "idle"
    /\ \/ \E e \in UploadErrors : Respond(i, e[1], e[2], NoImage)
       \/ \E mode \in ServerModes, model \in ModelNames, img \in ServerImages :
            req' = [req EXCEPT ![i].pc = "process", ![i].mode = mode,
                               ![i].model = model, ![i].img = img]
    /\ UNCHANGED <<_session_cache, new_session_calls, sessions_built>>
    /\ UNCHANGED <<matteVars, pipeVars, batchVars>>

\* process(), lines 168-200, mode dark or light
ProcessLuminance(i) ==
    /\ req[i].pc = "process" /\ req[i].mode \in {"dark", "light"}
    /\ \E t \in FormThresholds, sf \in FormSoftness, despill \in BOOLEAN :
         Respond(i, 200, "none",
                 process_result(req[i].mode, req[i].img, clamp_threshold(t),
                                clamp_softness(sf), despill, NoImage))
    /\ UNCHANGED <<_session_cache, new_session_calls, sessions_built>>
    /\ UNCHANGED <<matteVars, pipeVars, batchVars>>

\* Mutant of InvalidMode: the last branch of the dispatch is the AI path, as
\* in the desktop worker.
InvalidModeTakenAsAI(i) ==
    /\ req[i].pc = "process" /\ req[i].mode \notin {"dark", "light", "ai"}
    /\ req' = [req EXCEPT ![i].pc = IF _session_cache[req[i].model] = 0
                                    THEN "new_session" ELSE "return_session"]
    /\ UNCHANGED <<_session_cache, new_session_calls, sessions_built>>
    /\ UNCHANGED <<matteVars, pipeVars, batchVars>>

\* process(), lines 175-176: any other mode
InvalidMode(i) ==
    /\ req[i].pc = "process" /\ req[i].mode \notin {"dark", "light", "ai"}
    /\ Respond(i, 400, InvalidModeError, NoImage)
    /\ UNCHANGED <<_session_cache, new_session_calls, sessions_built>>
    /\ UNCHANGED <<matteVars, pipeVars, batchVars>>

\* get_session, line 43: if model_name not in _session_cache
GetSessionCheck(i) ==
    /\ req[i].pc = "process" /\ req[i].mode = "ai"
    /\ req' = [req EXCEPT ![i].pc = IF _session_cache[req[i].model] = 0
                                    THEN "new_session" ELSE "return_session"]
    /\ UNCHANGED <<_session_cache, new_session_calls, sessions_built>>
    /\ UNCHANGED <<matteVars, pipeVars, batchVars>>

\* Mutant of NewSession: a failed construction leaves a marker in the cache.
NewSessionCachingFailure(i) ==
    /\ req[i].pc = "new_session"
    /\ new_session_calls' = [new_session_calls EXCEPT ![req[i].model] = @ + 1]
    /\ \/ /\ sessions_built' = [sessions_built EXCEPT ![req[i].model] = @ + 1]
          /\ req' = [req EXCEPT ![i].pc = "store", ![i].tmp = FreshSession,
                                ![i].ns_calls = @ + 1]
          /\ UNCHANGED _session_cache
       \/ /\ req' = [req EXCEPT ![i] =
                        Answered([req[i] EXCEPT !.ns_calls = @ + 1, !.raised = "new_session"],
                                 500, ProcessingError, NoImage)]
          /\ _session_cache' = [_session_cache EXCEPT ![req[i].model] = -1]
          /\ UNCHANGED sessions_built
    /\ UNCHANGED <<matteVars, pipeVars, batchVars>>

\* get_session, line 46, right-hand side: new_session(model_name) returns a
\* new session or raises; the exception ends the request with status 500
\* (process, lines 177-179).
NewSession(i) ==
    /\ req[i].pc = "new_session"
    /\ new_session_calls' = [new_session_calls EXCEPT ![req[i].model] = @ + 1]
    /\ \/ /\ sessions_built' = [sessions_built EXCEPT ![req[i].model] = @ + 1]
          /\ req' = [req EXCEPT ![i].pc = "store", ![i].tmp = FreshSession,
                                ![i].ns_calls = @ + 1]
       \/ /\ req' = [req EXCEPT ![i] =
                        Answered([req[i] EXCEPT !.ns_calls = @ + 1, !.raised = "new_session"],
                                 500, ProcessingError, NoImage)]
          /\ UNCHANGED sessions_built
    /\ UNCHANGED _session_cache
    /\ UNCHANGED <<matteVars, pipeVars, batchVars>>

\* get_session, line 46, the assignment: _session_cache[model_name] = ...
StoreSession(i) ==
    /\ req[i].pc = "store"
    /\ _session_cache' = [_session_cache EXCEPT ![req[i].model] = req[i].tmp]
    /\ req' = [req EXCEPT ![i].pc = "return_session"]
    /\ UNCHANGED <<new_session_calls, sessions_built>>
    /\ UNCHANGED <<matteVars, pipeVars, batchVars>>

\* get_session, line 48: return _session_cache[model_name]
ReturnSession(i) ==
    /\ req[i].pc = "return_session"
    /\ req' = [req EXCEPT ![i].pc = "remove", ![i].session = _session_cache[req[i].model]]
    /\ UNCHANGED <<_session_cache, new_session_calls, sessions_built>>
    /\ UNCHANGED <<matteVars, pipeVars, batchVars>>

\* Mutant of Remove: a failed inference is tried again.
RemoveRetrying(i) ==
    /\ req[i].pc = "remove"
    /\ \/ \E raw \in RawOutputs(req[i].img) :
            req' = [req EXCEPT ![i] =
                      Answered([req[i] EXCEPT !.rm_calls = @ + 1], 200, "none",
                               process_result("ai", req[i].img, 0, 1, FALSE, raw))]
       \/ req' = [req EXCEPT ![i].rm_calls = @ + 1, ![i].raised = "remove"]
    /\ UNCHANGED <<_session_cache, new_session_calls, sessions_built>>
    /\ UNCHANGED <<matteVars, pipeVars, batchVars>>

\* remove_ai_bg, lines 98-110, and process, lines 177-200: remove() returns
\* an image, which is normalised and encoded, or raises (status 500).
Remove(i) ==
    /\ req[i].pc = "remove"
    /\ \/ \E raw \in RawOutputs(req[i].img) :
            req' = [req EXCEPT ![i] =
                      Answered([req[i] EXCEPT !.rm_calls = @ + 1], 200, "none",
                               process_result("ai", req[i].img, 0, 1, FALSE, raw))]
       \/ req' = [req EXCEPT ![i] =
                    Answered([req[i] EXCEPT !.rm_calls = @ + 1, !.raised = "remove"],
                             500, ProcessingError, NoImage)]
    /\ UNCHANGED <<_session_cache, new_session_calls, sessions_built>>
    /\ UNCHANGED <<matteVars, pipeVars, batchVars>>

ServerNext ==
    \E i \in Requests :
        \/ Receive(i)
        \/ ProcessLuminance(i)
        \/ InvalidMode(i)
        \/ GetSessionCheck(i)
        \/ NewSession(i)
        \/ StoreSession(i)
        \/ ReturnSession(i)
        \/ Remove(i)

ServerSpec == ServerInit /\ [][ServerNext]_vars

\* C5 as claimed: requests resolving the same model identifier concurrently
\* on an empty cache construct exactly one session for it (new_session
\* returns at most one session per identifier) and obtain the same session.
C5_OneConstructionPerKey_Claimed ==
    /\ \A m \in ModelNames : sessions_built[m] <= 1
    /\ \A i, j \in Requests :
         (req[i].session # 0 /\ req[j].session # 0 /\ req[i].model = req[j].model)
            => req[i].session = req[j].session

\* C13: a request whose mode is not dark, light or ai is answered at its
\* next step with the invalid-argument failure (status 400, "Gecersiz mod"):
\* without an image, without a call of new_session or remove on its behalf,
\* and with the session cache and the library untouched; the answer is final.
C13_InvalidModeRejected ==
    [][\A i \in DOMAIN req :
        /\ (/\ req[i].pc = "process"
            /\ req[i].mode \notin {"dark", "light", "ai"}
            /\ req'[i] # req[i]) =>
                /\ req'[i].pc = "done"
                /\ req'[i].status = 400 /\ req'[i].error = InvalidModeError
                /\ req'[i].out = NoImage
                /\ req'[i].session = 0
                /\ req'[i].ns_calls = 0 /\ req'[i].rm_calls = 0
                /\ UNCHANGED <<_session_cache, new_session_calls, sessions_built>>
        /\ req[i].pc = "done" => req'[i] = req[i]
      ]_vars

\* C13 witness: a request with mode "sepia" was answered 400 without an
\* image while the other request, in AI mode, got its image from the model.
C13_Witness ==
    \E i, j \in DOMAIN req :
        /\ req[i].pc = "done" /\ req[i].mode = "sepia"
        /\ req[i].status = 400 /\ req[i].error = InvalidModeError
        /\ req[i].out = NoImage /\ req[i].rm_calls = 0
        /\ req[j].pc = "done" /\ req[j].mode = "ai"
        /\ req[j].status = 200 /\ req[j].rm_calls = 1

\* C14 as claimed: the answer to a request whose new_session raised differs
\* in kind (status or error text) from the answer to a request whose
\* remove raised.
C14_FailuresDistinct_Claimed ==
    \A i, j \in DOMAIN req :
        (req[i].raised = "new_session" /\ req[j].raised = "remove") =>
            <<req[i].status, req[i].error>> # <<req[j].status, req[j].error>>

\* C24: a new_session call that raises leaves the session cache as it was,
\* the entry of its own identifier and those of the others, and no session
\* reaches the request; a request that finds no entry for its identifier
\* calls new_session, after a failure as before it.
C24_FailedLoadLeavesCache ==
    [][\A i \in DOMAIN req :
        /\ (req[i].pc = "new_session" /\ req'[i].raised = "new_session") =>
              /\ _session_cache' = _session_cache
              /\ sessions_built' = sessions_built
              /\ req'[i].session = 0
        /\ (/\ req[i].pc = "process" /\ req[i].mode = "ai"
            /\ _session_cache[req[i].model] = 0
            /\ req'[i] # req[i]) => req'[i].pc = "new_session"
        /\ (req[i].pc = "new_session" /\ req'[i] # req[i]) =>
              new_session_calls'[req[i].model] = new_session_calls[req[i].model] + 1
      ]_vars

\* C24 witness: new_session raised for one request; the other request, for
\* the same identifier, called new_session again and got its image.
C24_Witness ==
    \E i, j \in DOMAIN req :
        /\ req[i].raised = "new_session" /\ req[i].pc = "done"
        /\ req[j].model = req[i].model
        /\ req[j].pc = "done" /\ req[j].status = 200
        /\ req[j].ns_calls = 1 /\ req[j].session # 0
        /\ new_session_calls[req[i].model] = 2
        /\ sessions_built[req[i].model] = 1
        /\ _session_cache[req[i].model] = req[j].session

\* ------------------------------------------------------------------------
\* BatchSpec: rembg_app.py, class RemBGApp.  The Tk callbacks (_pick_files,
\* _clear_queue, _start, _stop) run one at a time on the UI thread and may be
\* invoked at any moment; each _start that gets past its guards starts a
\* worker thread, whose steps interleave with the callbacks.
\* ------------------------------------------------------------------------

\* Number of input paths the user can pick.
NumPaths == 2
Paths == 1..NumPaths

\* Number of worker threads that may be started.
MaxRuns == 2

\* Positions of a worker inside the body of its for loop, a file in flight.
InFlight == {"exists", "open", "process", "save"}

BatchInit ==
    /\ MatteIdle /\ PipeIdle
    /\ _session_cache = <<>> /\ req = <<>>
    /\ new_session_calls = [m \in ModelNames |-> 0]
    /\ sessions_built = [m \in ModelNames |-> 0]
    /\ _files = <<>>
    /\ _mode_var = "dark"
    /\ _running = FALSE
    /\ _stop_evt = FALSE
    /\ _done_count = 0 /\ _error_count = 0 /\ _skip_count = 0
    /\ workers = <<>>
    /\ existing \in SUBSET Paths

UnchangedLibrary == UNCHANGED <<_session_cache, req, new_session_calls, sessions_built>>
UnchangedCounts == UNCHANGED <<_done_count, _error_count, _skip_count>>
UnchangedWidgets == UNCHANGED _mode_var

\* The mode radio buttons that are clicked.  The two luminance modes take
\* the same path through _start and _worker and differ in the matte that
\* is called (PipelineSpec): "dark", the initial value, stands for both.
RadioModes == {"dark", "ai"}

\* A click on a mode radio button other than the selected one (a click on
\* the selected one changes nothing); _on_mode_change shows the panel of
\* the mode and leaves every variable alone.
SetMode ==
    /\ \E mode \in RadioModes \ {_mode_var} : _mode_var' = mode
    /\ UNCHANGED <<_files, _running, _stop_evt, workers, existing>>
    /\ UnchangedCounts /\ UnchangedLibrary
    /\ UNCHANGED <<matteVars, pipeVars>>

\* Mutant of PickFile: the running worker holds the queue itself, not a
\* copy of it, so that a path appended to the queue is appended to its list.
PickFileIntoSharedList ==
    /\ \E f \in Paths :
         /\ f <= Len(_files) + 1
         /\ _files' = IF \E k \in DOMAIN _files : _files[k] = f THEN _files
                      ELSE Append(_files, f)
    /\ workers' = [w \in DOMAIN workers |->
                      IF workers[w].pc = "finished" THEN workers[w]
                      ELSE [workers[w] EXCEPT !.files = _files']]
    /\ UNCHANGED <<_running, _stop_evt, existing>>
    /\ UnchangedCounts /\ UnchangedLibrary
    /\ UnchangedWidgets
    /\ UNCHANGED <<matteVars, pipeVars>>

\* _pick_files / _pick_folder with _dup: a picked path is appended unless it
\* is in the queue already.  Paths being interchangeable, the paths not yet
\* in the queue are picked in index order.
PickFile ==
    /\ \E f \in Paths :
         /\ f <= Len(_files) + 1
         /\ _files' = IF \E k \in DOMAIN _files : _files[k] = f THEN _files
                      ELSE Append(_files, f)
    /\ UNCHANGED <<_running, _stop_evt, workers, existing>>
    /\ UnchangedCounts /\ UnchangedLibrary
    /\ UnchangedWidgets
    /\ UNCHANGED <<matteVars, pipeVars>>

\* _clear_queue
ClearQueue ==
    /\ _files' = <<>>
    /\ UNCHANGED <<_running, _stop_evt, workers, existing>>
    /\ UnchangedCounts /\ UnchangedLibrary
    /\ UnchangedWidgets
    /\ UNCHANGED <<matteVars, pipeVars>>

\* The thread _start creates: its arguments and its position.  The field
\* stop_pending is history, which the worker does not read: whether the
\* stop flag was set when _start was called.
NewWorker(files, mode, model, stop_pending) ==
    [pc |-> IF mode = "ai" THEN "load" ELSE "loop",
     files |-> files, mode |-> mode, model |-> model,
     session |-> 0, idx |-> 1, log |-> <<>>, last |-> "none",
     stop_pending |-> stop_pending]

\* A worker thread that has returned: its locals are gone.
FinishedWorker ==
    [pc |-> "finished", files |-> <<>>, mode |-> "none", model |-> "none",
     session |-> 0, idx |-> 0, log |-> <<>>, last |-> "none",
     stop_pending |-> FALSE]

\* Mutant of Start: the guard "if self._running: return" is missing.
StartUnguarded ==
    /\ Len(workers) < MaxRuns
    /\ IF _files = <<>>
       THEN UNCHANGED <<_running, _stop_evt, _done_count, _error_count, _skip_count, workers>>
       ELSE /\ _running' = TRUE
            /\ _stop_evt' = FALSE
            /\ _done_count' = 0 /\ _error_count' = 0 /\ _skip_count' = 0
            /\ \E model \in ModelNames :
                 workers' = Append(workers, NewWorker(_files, _mode_var, model, _stop_evt))
    /\ UNCHANGED <<_files, existing>>
    /\ UnchangedLibrary
    /\ UnchangedWidgets
    /\ UNCHANGED <<matteVars, pipeVars>>

\* Mutant of Start: the three counters are not reset.
StartKeepingCounts ==
    /\ Len(workers) < MaxRuns
    /\ IF _running \/ _files = <<>>
       THEN UNCHANGED <<_running, _stop_evt, workers>>
       ELSE /\ _running' = TRUE
            /\ _stop_evt' = FALSE
            /\ \E model \in ModelNames :
                 workers' = Append(workers, NewWorker(_files, _mode_var, model, _stop_evt))
    /\ UNCHANGED <<_files, existing>>
    /\ UnchangedCounts /\ UnchangedLibrary
    /\ UnchangedWidgets
    /\ UNCHANGED <<matteVars, pipeVars>>

\* Mutant of Start: the stop flag is not cleared.
StartWithoutClear ==
    /\ Len(workers) < MaxRuns
    /\ IF _running \/ _files = <<>>
       THEN UNCHANGED <<_running, _stop_evt, _done_count, _error_count, _skip_count, workers>>
       ELSE /\ _running' = TRUE
            /\ UNCHANGED _stop_evt
            /\ _done_count' = 0 /\ _error_count' = 0 /\ _skip_count' = 0
            /\ \E model \in ModelNames :
                 workers' = Append(workers, NewWorker(_files, _mode_var, model, _stop_evt))
    /\ UNCHANGED <<_files, existing>>
    /\ UnchangedLibrary
    /\ UnchangedWidgets
    /\ UNCHANGED <<matteVars, pipeVars>>

\* _start: returns at once while a run is in progress or when the queue is
\* empty; otherwise resets the flag and the counters and starts a worker on
\* a copy of the queue with the values the widgets hold: the mode of
\* _mode_var and the model selected at that moment, which is any of them.
Start ==
    /\ Len(workers) < MaxRuns
    /\ IF _running \/ _files = <<>>
       THEN UNCHANGED <<_running, _stop_evt, _done_count, _error_count, _skip_count, workers>>
       ELSE /\ _running' = TRUE
            /\ _stop_evt' = FALSE
            /\ _done_count' = 0 /\ _error_count' = 0 /\ _skip_count' = 0
            /\ \E model \in ModelNames :
                 workers' = Append(workers, NewWorker(_files, _mode_var, model, _stop_evt))
    /\ UNCHANGED <<_files, existing>>
    /\ UnchangedLibrary
    /\ UnchangedWidgets
    /\ UNCHANGED <<matteVars, pipeVars>>

\* _stop
Stop ==
    /\ _stop_evt' = TRUE
    /\ UNCHANGED <<_files, _running, workers, existing>>
    /\ UnchangedCounts /\ UnchangedLibrary
    /\ UnchangedWidgets
    /\ UNCHANGED <<matteVars, pipeVars>>

\* _finish, as called by worker w
Finish(w) ==
    /\ _running' = FALSE
    /\ workers' = [workers EXCEPT ![w] = FinishedWorker]

\* Mutant of LoadModel: when new_session raises, the worker goes on into
\* the loop without a session.
LoadModelFailureGoesOn(w) ==
    /\ workers[w].pc = "load"
    /\ new_session_calls' = [new_session_calls EXCEPT ![workers[w].model] = @ + 1]
    /\ \/ /\ sessions_built' = [sessions_built EXCEPT ![workers[w].model] = @ + 1]
          /\ workers' = [workers EXCEPT ![w].pc = "loop", ![w].session = FreshSession]
       \/ /\ workers' = [workers EXCEPT ![w].pc = "loop"]
          /\ UNCHANGED sessions_built
    /\ UNCHANGED <<_files, _running, _stop_evt, existing, _session_cache, req>>
    /\ UnchangedCounts
    /\ UnchangedWidgets
    /\ UNCHANGED <<matteVars, pipeVars>>

\* Mutant of LoadModel: when new_session raises, the worker returns
\* without calling _finish.
LoadModelFailureWithoutFinish(w) ==
    /\ workers[w].pc = "load"
    /\ new_session_calls' = [new_session_calls EXCEPT ![workers[w].model] = @ + 1]
    /\ \/ /\ sessions_built' = [sessions_built EXCEPT ![workers[w].model] = @ + 1]
          /\ workers' = [workers EXCEPT ![w].pc = "loop", ![w].session = FreshSession]
       \/ /\ workers' = [workers EXCEPT ![w] = FinishedWorker]
          /\ UNCHANGED sessions_built
    /\ UNCHANGED <<_files, _running, _stop_evt, existing, _session_cache, req>>
    /\ UnchangedCounts
    /\ UnchangedWidgets
    /\ UNCHANGED <<matteVars, pipeVars>>

\* _worker, lines 605-618: in AI mode the session is built by new_session at
\* the start of every run; when that raises the run ends through _finish.
LoadModel(w) ==
    /\ workers[w].pc = "load"
    /\ new_session_calls' = [new_session_calls EXCEPT ![workers[w].model] = @ + 1]
    /\ \/ /\ sessions_built' = [sessions_built EXCEPT ![workers[w].model] = @ + 1]
          /\ workers' = [workers EXCEPT ![w].pc = "loop", ![w].session = FreshSession]
          /\ UNCHANGED _running
       \/ /\ Finish(w)
          /\ UNCHANGED sessions_built
    /\ UNCHANGED <<_files, _stop_evt, existing, _session_cache, req>>
    /\ UnchangedCounts
    /\ UnchangedWidgets
    /\ UNCHANGED <<matteVars, pipeVars>>

\* Mutant of LoopTop: the stop flag is not looked at.
LoopTopIgnoringStop(w) ==
    /\ workers[w].pc = "loop"
    /\ workers' = [workers EXCEPT ![w].pc =
                      IF workers[w].idx > Len(workers[w].files) THEN "summary" ELSE "exists"]
    /\ UNCHANGED <<_files, _running, _stop_evt, existing>>
    /\ UnchangedCounts /\ UnchangedLibrary
    /\ UnchangedWidgets
    /\ UNCHANGED <<matteVars, pipeVars>>

\* _worker, lines 622-624: the head of the for loop; the stop flag is read
\* here and nowhere else.
LoopTop(w) ==
    /\ workers[w].pc = "loop"
    /\ workers' = [workers EXCEPT ![w].pc =
                      IF workers[w].idx > Len(workers[w].files) \/ _stop_evt
                      THEN "summary" ELSE "exists"]
    /\ UNCHANGED <<_files, _running, _stop_evt, existing>>
    /\ UnchangedCounts /\ UnchangedLibrary
    /\ UnchangedWidgets
    /\ UNCHANGED <<matteVars, pipeVars>>

\* The file worker w has in flight.
Current(w) == workers[w].files[workers[w].idx]

\* The worker is through with its current file (log: the files it has been
\* through, last: the outcome it reported for the latest): the loop goes on
\* with the next index.
Handled(w, outcome) ==
    workers' = [workers EXCEPT ![w].pc = "loop", ![w].idx = @ + 1,
                               ![w].log = Append(@, Current(w)), ![w].last = outcome]

\* Mutant of FileError: the exception ends the loop.
FileErrorAborts(w) ==
    /\ _error_count' = _error_count + 1
    /\ workers' = [workers EXCEPT ![w].pc = "summary", ![w].idx = @ + 1,
                                  ![w].log = Append(@, Current(w)), ![w].last = "error"]
    /\ UNCHANGED <<_done_count, _skip_count>>

\* _worker, lines 666-675: the except clause of the loop body
FileError(w) ==
    /\ _error_count' = _error_count + 1
    /\ Handled(w, "error")
    /\ UNCHANGED <<_done_count, _skip_count>>

\* Mutant of CheckExists: the existing output is not looked for.
CheckExistsAlwaysProcess(w) ==
    /\ workers[w].pc = "exists"
    /\ workers' = [workers EXCEPT ![w].pc = "open"]
    /\ UnchangedCounts
    /\ UNCHANGED <<_files, _running, _stop_evt, existing>>
    /\ UnchangedLibrary
    /\ UnchangedWidgets
    /\ UNCHANGED <<matteVars, pipeVars>>

\* _worker, lines 630-638: the output exists already, the file is skipped
CheckExists(w) ==
    /\ workers[w].pc = "exists"
    /\ IF Current(w) \in existing
       THEN /\ _skip_count' = _skip_count + 1
            /\ Handled(w, "skipped")
            /\ UNCHANGED <<_done_count, _error_count>>
       ELSE /\ workers' = [workers EXCEPT ![w].pc = "open"]
            /\ UnchangedCounts
    /\ UNCHANGED <<_files, _running, _stop_evt, existing>>
    /\ UnchangedLibrary
    /\ UnchangedWidgets
    /\ UNCHANGED <<matteVars, pipeVars>>

\* _worker, lines 641-642: Image.open(fp) succeeds or raises
OpenImage(w) ==
    /\ workers[w].pc = "open"
    /\ \/ /\ workers' = [workers EXCEPT ![w].pc = "process"]
          /\ UnchangedCounts
       \/ FileError(w)
    /\ UNCHANGED <<_files, _running, _stop_evt, existing>>
    /\ UnchangedLibrary
    /\ UnchangedWidgets
    /\ UNCHANGED <<matteVars, pipeVars>>

\* _worker, lines 644-656: the matte or the AI removal and the size check
\* (worker_result gives the image); any of it may raise
ProcessImage(w) ==
    /\ workers[w].pc = "process"
    /\ \/ /\ workers' = [workers EXCEPT ![w].pc = "save"]
          /\ UnchangedCounts
       \/ FileError(w)
    /\ UNCHANGED <<_files, _running, _stop_evt, existing>>
    /\ UnchangedLibrary
    /\ UnchangedWidgets
    /\ UNCHANGED <<matteVars, pipeVars>>

\* _worker, lines 658-664: result.save(out) and the done counter; when save
\* or out.stat() raises, the output may or may not have been written
SaveResult(w) ==
    /\ workers[w].pc = "save"
    /\ \/ /\ existing' = existing \cup {Current(w)}
          /\ _done_count' = _done_count + 1
          /\ Handled(w, "saved")
          /\ UNCHANGED <<_error_count, _skip_count>>
       \/ /\ FileError(w)
          /\ \E written \in BOOLEAN :
               existing' = IF written THEN existing \cup {Current(w)} ELSE existing
    /\ UNCHANGED <<_files, _running, _stop_evt>>
    /\ UnchangedLibrary
    /\ UnchangedWidgets
    /\ UNCHANGED <<matteVars, pipeVars>>

\* _worker, lines 677-685: the summary is logged and _finish is called
Summary(w) ==
    /\ workers[w].pc = "summary"
    /\ Finish(w)
    /\ UNCHANGED <<_files, _stop_evt, existing>>
    /\ UnchangedCounts /\ UnchangedLibrary
    /\ UnchangedWidgets
    /\ UNCHANGED <<matteVars, pipeVars>>

BatchNext ==
    \/ PickFile
    \/ ClearQueue
    \/ SetMode
    \/ Start
    \/ Stop
    \/ \E w \in DOMAIN workers : LoadModel(w)
    \/ \E w \in DOMAIN workers : LoopTop(w)
    \/ \E w \in DOMAIN workers : CheckExists(w)
    \/ \E w \in DOMAIN workers : OpenImage(w)
    \/ \E w \in DOMAIN workers : ProcessImage(w)
    \/ \E w \in DOMAIN workers : SaveResult(w)
    \/ \E w \in DOMAIN workers : Summary(w)

BatchSpec == BatchInit /\ [][BatchNext]_vars

\* A step of a worker thread.  The thread is a daemon thread of the
\* interpreter: once started it is scheduled again and again, and each of
\* its statements returns or raises.
WorkerStep ==
    \E w \in DOMAIN workers :
        \/ LoadModel(w) \/ LoopTop(w) \/ CheckExists(w) \/ OpenImage(w)
        \/ ProcessImage(w) \/ SaveResult(w) \/ Summary(w)

\* The desktop application with worker threads that are not starved; the
\* user is under no obligation to click anything.
BatchLiveSpec == BatchInit /\ [][BatchNext]_vars /\ WF_vars(WorkerStep)

\* ------------------------------------------------------------------------
\* ProgramSpec: either program, the server or the desktop application
\* ------------------------------------------------------------------------

ProgramInit == ServerInit \/ BatchInit

\* The server's variables are empty while the desktop application runs.
ProgramNext ==
    \/ req # <<>> /\ ServerNext
    \/ req = <<>> /\ BatchNext

ProgramSpec == ProgramInit /\ [][ProgramNext]_vars

\* ------------------------------------------------------------------------
\* Properties of the matte
\* ------------------------------------------------------------------------

RGB(img) == <<img.px[1], img.px[2], img.px[3]>>
AlphaOf(img) == img.px[4]
InRange == m_threshold \in 0..255 /\ m_softness \in 1..200

\* C1: dark mode, threshold in [0,255], softness in [1,200]: a pixel whose
\* luminance is at or below threshold gets alpha 0, one whose luminance is
\* at or above threshold + softness gets alpha 255.
C1_DarkRampEnds ==
    (m_dark # NoImage /\ InRange) =>
        /\ (Lum(m_img.px) <= m_threshold * LumScale => AlphaOf(m_dark) = 0)
        /\ (Lum(m_img.px) >= (m_threshold + m_softness) * LumScale
                => AlphaOf(m_dark) = 255)

\* C1 witness: the solid white image, threshold 35, softness 25, gets alpha 255.
C1_Witness ==
    /\ m_dark # NoImage
    /\ RGB(m_img) = <<255, 255, 255>>
    /\ m_threshold = 35 /\ m_softness = 25
    /\ AlphaOf(m_dark) = 255

\* C2 as claimed: light mode: a pixel whose luminance is at or above
\* threshold gets alpha 0, one at or below threshold - softness gets 255.
C2_LightRampEnds_Claimed ==
    (m_light # NoImage /\ InRange) =>
        /\ (Lum(m_img.px) >= m_threshold * LumScale => AlphaOf(m_light) = 0)
        /\ (Lum(m_img.px) <= (m_threshold - m_softness) * LumScale
                => AlphaOf(m_light) = 255)

C4_DespillOnlyFringe_Claimed ==
    /\ (m_despill /\ m_dark # NoImage /\ (AlphaOf(m_dark) = 0 \/ AlphaOf(m_dark) >= 200))
            => RGB(m_dark) = RGB(m_img)
    /\ (m_despill /\ m_light # NoImage /\ (AlphaOf(m_light) = 0 \/ AlphaOf(m_light) >= 200))
            => RGB(m_light) = RGB(m_img)

\* C12: the divisor of the ramp is at least 1 for every softness passed to
\* remove_dark_bg or remove_light_bg, 0 and negative values included: such
\* a call returns what the call with softness 1 returns, an image whose
\* alpha is an 8-bit value.
C12_DivisorAtLeastOne ==
    /\ Soft(m_softness) >= 1
    /\ AlphaDen(Soft(m_softness)) >= LumScale
    /\ (m_dark # NoImage /\ m_softness < 1) =>
            /\ m_dark = remove_dark_bg(m_img, m_threshold, 1, m_despill)
            /\ AlphaOf(m_dark) \in 0..255
    /\ (m_light # NoImage /\ m_softness < 1) =>
            /\ m_light = remove_light_bg(m_img, m_threshold, 1, m_despill)
            /\ AlphaOf(m_light) \in 0..255

\* C12 witness: both functions were called with softness 0 on a pixel one
\* luminance step above threshold, which the divisor 1 makes opaque in dark
\* mode and transparent in light mode.
C12_Witness ==
    /\ m_softness = 0 /\ m_threshold = 35
    /\ RGB(m_img) = <<36, 36, 36>>
    /\ m_dark # NoImage /\ AlphaOf(m_dark) = 255
    /\ m_light # NoImage /\ AlphaOf(m_light) = 0

\* The alpha remove_dark_bg returns for pixel px with the current arguments.
DarkAlphaAt(px) ==
    AlphaOf(remove_dark_bg([m_img EXCEPT !.px = px], m_threshold, m_softness, m_despill))

\* C15: for fixed threshold and softness the 8-bit alpha of dark mode does
\* not decrease with luminance: a pixel whose luminance is at most that of
\* the input pixel gets at most the input pixel's alpha.
C15_DarkAlphaMonotone ==
    m_dark # NoImage =>
        \A px \in Pixels :
            Lum(px) <= Lum(m_img.px) => DarkAlphaAt(px) <= AlphaOf(m_dark)

\* C15 witness: two pixels inside the ramp, the darker one with the
\* strictly smaller alpha.
C15_Witness ==
    /\ m_dark # NoImage /\ AlphaOf(m_dark) \in 2..254
    /\ \E px \in Pixels :
         /\ Lum(px) < Lum(m_img.px)
         /\ DarkAlphaAt(px) \in 1..(AlphaOf(m_dark) - 1)

\* The float alpha of the input pixel lies in despill's fringe band.
InDarkFringe ==
    fringe_mask(dark_alpha(Lum(m_img.px), m_threshold, Soft(m_softness)), Soft(m_softness))
InLightFringe ==
    fringe_mask(light_alpha(Lum(m_img.px), m_threshold, Soft(m_softness)), Soft(m_softness))

\* C18: in dark and light mode the output R, G, B are the input R, G, B
\* wherever despill did not act: everywhere when despill is off, and outside
\* the fringe band when it is on.
C18_RGBKeptOutsideDespill ==
    /\ (m_dark # NoImage /\ (~m_despill \/ ~InDarkFringe)) => RGB(m_dark) = RGB(m_img)
    /\ (m_light # NoImage /\ (~m_despill \/ ~InLightFringe)) => RGB(m_light) = RGB(m_img)

\* C18 witness: despill off, a coloured pixel inside the ramp of both
\* modes: both outputs carry the input's R, G, B and a new alpha.
C18_Witness ==
    /\ ~m_despill
    /\ m_dark # NoImage /\ m_light # NoImage
    /\ InDarkFringe /\ InLightFringe
    /\ m_img.px[1] # m_img.px[2]
    /\ RGB(m_dark) = RGB(m_img) /\ RGB(m_light) = RGB(m_img)
    /\ AlphaOf(m_dark) # AlphaOf(m_img) /\ AlphaOf(m_light) # AlphaOf(m_img)

MaxChannel(img) == Max(img.px[1], Max(img.px[2], img.px[3]))
MinChannel(img) == Min(img.px[1], Min(img.px[2], img.px[3]))

\* C26: despill on a fringe pixel.  Dark mode: a channel that holds the
\* largest of R, G, B keeps its value and no channel grows.  Light mode: a
\* channel that holds the smallest keeps its value and no channel shrinks.
\* In both modes every output channel is in [0,255].
C26_DespillDirection ==
    /\ (m_dark # NoImage /\ m_despill /\ InDarkFringe) =>
          \A c \in 1..3 :
              /\ m_dark.px[c] <= m_img.px[c]
              /\ m_img.px[c] = MaxChannel(m_img) => m_dark.px[c] = m_img.px[c]
    /\ (m_light # NoImage /\ m_despill /\ InLightFringe) =>
          \A c \in 1..3 :
              /\ m_light.px[c] >= m_img.px[c]
              /\ m_img.px[c] = MinChannel(m_img) => m_light.px[c] = m_img.px[c]
    /\ m_dark # NoImage => \A c \in 1..3 : m_dark.px[c] \in 0..255
    /\ m_light # NoImage => \A c \in 1..3 : m_light.px[c] \in 0..255

\* C26 witness: a coloured pixel in the fringe of both modes, despill on:
\* dark mode lowered a channel and kept the largest, light mode raised a
\* channel and kept the smallest.
C26_Witness ==
    /\ m_despill /\ InDarkFringe /\ InLightFringe
    /\ m_dark # NoImage /\ m_light # NoImage
    /\ \E c \in 1..3 : m_dark.px[c] < m_img.px[c]
    /\ MaxChannel(m_dark) = MaxChannel(m_img)
    /\ \E c \in 1..3 : m_light.px[c] > m_img.px[c]
    /\ MinChannel(m_light) = MinChannel(m_img)

\* C19: dark mode, threshold and softness in range, threshold + softness at
\* most 255: a pixel whose luminance is exactly threshold + softness / 2
\* gets alpha 127 or 128.
C19_RampMidpoint ==
    (/\ m_dark # NoImage /\ InRange
     /\ m_threshold + m_softness <= 255
     /\ 2 * Lum(m_img.px) = (2 * m_threshold + m_softness) * LumScale)
        => AlphaOf(m_dark) \in {127, 128}

\* C19 witness: threshold 35, softness 25, a pixel of luminance 47.5, and
\* the alpha is 127.
C19_Witness ==
    /\ m_dark # NoImage
    /\ m_threshold = 35 /\ m_softness = 25
    /\ RGB(m_img) = <<15, 56, 59>>
    /\ 2 * Lum(m_img.px) = (2 * m_threshold + m_softness) * LumScale
    /\ AlphaOf(m_dark) = 127

\* ------------------------------------------------------------------------
\* Properties of the session cache and of the batch worker
\* ------------------------------------------------------------------------

ActiveWorkers == {w \in DOMAIN workers : workers[w].pc # "finished"}

\* C7 as claimed: a session is constructed on the first use of a model
\* identifier and reused by every later use: over the life of the
\* application new_session returns at most one session per identifier.
C7_SessionBuiltOnce_Claimed ==
    \A m \in ModelNames : sessions_built[m] <= 1

\* C17: nothing is retried.  A request calls new_session at most once and
\* remove at most once, and is answered 500 as soon as either raised; a
\* batch run goes through no file twice, failed or not.
C17_NoRetry ==
    /\ \A i \in DOMAIN req :
         /\ req[i].ns_calls <= 1
         /\ req[i].rm_calls <= 1
         /\ req[i].raised # "none" => (req[i].pc = "done" /\ req[i].status = 500)
    /\ \A w \in DOMAIN workers :
         /\ \A j, k \in DOMAIN workers[w].log :
                j < k => workers[w].log[j] # workers[w].log[k]
         /\ workers[w].pc \in InFlight =>
                \A j \in DOMAIN workers[w].log : workers[w].log[j] # Current(w)

\* C17 witness: new_session raised in one request and remove in the other;
\* each was called once and both requests are answered.
C17_Witness ==
    \E i, j \in DOMAIN req :
        /\ req[i].raised = "new_session" /\ req[i].ns_calls = 1 /\ req[i].rm_calls = 0
        /\ req[j].raised = "remove" /\ req[j].rm_calls = 1
        /\ req[i].pc = "done" /\ req[j].pc = "done"

\* C20: when the output of the file whose turn has come exists, the file is
\* neither opened nor processed nor saved, the outputs on disk stay as they
\* are, the skip counter grows by one, the done and error counters keep
\* their values, and the loop goes on with the next file.
C20_SkipExisting ==
    [][\A w \in DOMAIN workers :
        (/\ workers[w].pc = "exists"
         /\ Current(w) \in existing
         /\ workers'[w] # workers[w]) =>
              /\ workers'[w].pc = "loop"
              /\ workers'[w].idx = workers[w].idx + 1
              /\ workers'[w].last = "skipped"
              /\ _skip_count' = _skip_count + 1
              /\ _done_count' = _done_count
              /\ _error_count' = _error_count
              /\ existing' = existing
      ]_vars

\* C20 witness: the first file of the run was skipped, nothing else was
\* counted, and the worker is at the second file.
C20_Witness ==
    \E w \in DOMAIN workers :
        /\ workers[w].pc \in InFlight /\ workers[w].idx = 2
        /\ workers[w].last = "skipped"
        /\ workers[w].log[1] \in existing
        /\ _skip_count = 1 /\ _done_count = 0 /\ _error_count = 0

Counted == _done_count + _error_count + _skip_count

\* C21 as claimed: a run that ends without a stop request has counted every
\* file of its queue: done + error + skipped is the number of its files.
C21_AllCountedAtEnd_Claimed ==
    [][\A w \in DOMAIN workers :
        (/\ workers[w].pc # "finished"
         /\ workers'[w].pc = "finished"
         /\ ~_stop_evt) => Counted' = Len(workers[w].files)
      ]_vars

\* C21 amended: during a run done + error + skipped is the number of files
\* the worker has been through, and it is the number of files of the run
\* when the loop is left without a stop request.
C21_CountersPartition ==
    \A w \in ActiveWorkers :
        /\ Counted = Len(workers[w].log)
        /\ Counted = workers[w].idx - 1
        /\ (workers[w].pc = "summary" /\ ~_stop_evt) => Counted = Len(workers[w].files)

\* C21 witness: a run of two files has left its loop without a stop
\* request, one file saved and one failed.
C21_Witness ==
    \E w \in ActiveWorkers :
        /\ workers[w].pc = "summary" /\ ~_stop_evt
        /\ Len(workers[w].files) = 2
        /\ _done_count = 1 /\ _error_count = 1 /\ _skip_count = 0

\* C23: when new_session raises at the start of an AI run, the run ends
\* there: the worker has finished, _running is False, no output was written
\* and the three counters are 0.
C23_LoadFailureHandlesNoFile ==
    [][\A w \in DOMAIN workers :
        (/\ workers[w].pc = "load"
         /\ workers'[w] # workers[w]
         /\ sessions_built' = sessions_built) =>
              /\ workers'[w].pc = "finished"
              /\ ~_running'
              /\ existing' = existing
              /\ _done_count' = 0 /\ _error_count' = 0 /\ _skip_count' = 0
      ]_vars

\* C23 witness: the only run so far was an AI run whose new_session call
\* raised: it has finished, with a non-empty queue and nothing counted.
C23_Witness ==
    /\ Len(workers) = 1 /\ workers[1].pc = "finished"
    /\ \E m \in ModelNames : new_session_calls[m] = 1
    /\ \A m \in ModelNames : sessions_built[m] = 0
    /\ ~_running /\ _files # <<>>
    /\ Counted = 0

\* C27: a batch run works on a snapshot of the queue and of the parameters.
\* The worker a _start creates holds the queue and the mode as they are at
\* that moment, and as long as it has not returned no step changes its list
\* of files, its mode or its model: not a file added to the queue, not the
\* clearing of the queue, not a click on a mode button; the files it has
\* handled are the first ones of its list, in order.
C27_RunWorksOnSnapshot ==
    [][ /\ Len(workers') = Len(workers) + 1 =>
            LET n == workers'[Len(workers')]
            IN  n.files = _files /\ n.mode = _mode_var
        /\ \A w \in DOMAIN workers :
             workers'[w].pc # "finished" =>
                /\ workers'[w].files = workers[w].files
                /\ workers'[w].mode = workers[w].mode
                /\ workers'[w].model = workers[w].model
                /\ workers'[w].log = SubSeq(workers[w].files, 1, Len(workers'[w].log))]_vars

\* C27 witness: a worker started on two files in dark mode has handled
\* the first and has the second in flight, while the queue has been cleared
\* and the mode has been changed.
C27_Witness ==
    \E w \in DOMAIN workers :
        /\ workers[w].pc \in InFlight /\ workers[w].idx = 2
        /\ workers[w].files = <<1, 2>> /\ _files = <<>>
        /\ workers[w].mode = "dark" /\ _mode_var = "ai"

\* C28: a stop request does not leak into the next run.  Every _start that
\* starts a run leaves the stop flag cleared, whatever it was before; the
\* flag is set by _stop and by nothing else; and a worker at the head of
\* its loop with the flag clear and files left takes up its next file.
C28_StopDoesNotLeak ==
    [][ /\ Len(workers') = Len(workers) + 1 => ~_stop_evt'
        /\ (~_stop_evt /\ _stop_evt') => workers' = workers
        /\ \A w \in DOMAIN workers :
             (/\ workers[w].pc = "loop" /\ workers'[w] # workers[w]
              /\ ~_stop_evt /\ workers[w].idx <= Len(workers[w].files))
             => workers'[w].pc = "exists"]_vars

\* C28 witness: the stop flag was set when the second run was started; that
\* run has handled its first file and has its second in flight, the flag
\* being clear.
C28_Witness ==
    /\ Len(workers) = 2
    /\ workers[1].pc = "finished"
    /\ workers[2].stop_pending
    /\ workers[2].pc \in InFlight /\ workers[2].idx = 2
    /\ ~_stop_evt

C8_StopAtFileBoundary ==
    [][\A w \in DOMAIN workers :
        /\ (workers[w].pc \in InFlight /\ workers'[w].pc \notin InFlight) =>
              /\ workers'[w].pc = "loop"
              /\ workers'[w].idx = workers[w].idx + 1
              /\ workers'[w].last \in {"saved", "error", "skipped"}
              /\ _done_count' = _done_count + (IF workers'[w].last = "saved" THEN 1 ELSE 0)
              /\ _error_count' = _error_count + (IF workers'[w].last = "error" THEN 1 ELSE 0)
              /\ _skip_count' = _skip_count + (IF workers'[w].last = "skipped" THEN 1 ELSE 0)
        /\ (workers[w].pc = "loop" /\ _stop_evt /\ workers'[w] # workers[w]) =>
              workers'[w].pc = "summary"
        /\ workers[w].pc \in {"summary", "finished"} =>
              workers'[w].pc \in {"summary", "finished"}
      ]_vars

\* C8 witness: stop was requested while the first file was in flight; the
\* file was saved and counted, and the worker has left the loop with a file
\* of its snapshot not started.
C8_Witness ==
    \E w \in DOMAIN workers :
        /\ workers[w].pc = "summary" /\ _stop_evt
        /\ workers[w].last = "saved" /\ _done_count = 1
        /\ workers[w].idx = 2 /\ Len(workers[w].files) = 2

\* C9: at most one worker is alive, so at most one file is in flight; a
\* worker goes through its snapshot of the queue in order, one file after
\* the other.
C9_SingleSequentialWorker ==
    /\ Cardinality(ActiveWorkers) <= 1
    /\ \A w \in ActiveWorkers :
         /\ workers[w].idx = Len(workers[w].log) + 1
         /\ workers[w].log = SubSeq(workers[w].files, 1, Len(workers[w].log))
         /\ workers[w].pc \in InFlight => workers[w].idx <= Len(workers[w].files)

\* C9 witness: a second run, started after the first had finished, has its
\* second file in flight.
C9_Witness ==
    /\ Len(workers) = 2
    /\ workers[1].pc = "finished"
    /\ workers[2].pc \in InFlight /\ workers[2].idx = 2

\* C10: a failure while opening, processing or saving a file adds exactly
\* one to the error counter, leaves the done and skip counters as they are,
\* and the worker is back at the head of the loop with the next index.
C10_ErrorCountedAndLoopGoesOn ==
    [][\A w \in DOMAIN workers :
        (/\ workers[w].pc \in {"open", "process", "save"}
         /\ workers'[w].idx # workers[w].idx
         /\ workers'[w].last = "error") =>
              /\ _error_count' = _error_count + 1
              /\ _done_count' = _done_count
              /\ _skip_count' = _skip_count
              /\ workers'[w].pc = "loop"
              /\ workers'[w].idx = workers[w].idx + 1
      ]_vars

\* C10 witness: the first file failed and was counted as an error, and the
\* second file is in flight.
C10_Witness ==
    \E w \in DOMAIN workers :
        /\ workers[w].pc \in InFlight /\ workers[w].idx = 2
        /\ workers[w].last = "error"
        /\ _error_count = 1 /\ _done_count = 0 /\ _skip_count = 0

====
